---- MODULE Spec2Model ----
(***************************************************************************)
(* Model of asteroid/engine/system.py: class System, the adapter between   *)
(* a model, an optimizer, a loss class, the data loaders and the           *)
(* pytorch-lightning training loop.                                        *)
(*                                                                         *)
(* Python values are represented as follows.                               *)
(*   - None is the string "None"; collaborators are named by strings.      *)
(*   - A dict is a function from its keys (strings) to its values.         *)
(*   - A call ends in an outcome: a return with a value, or a raise with   *)
(*     an error.  The outcome also carries the collaborator calls made     *)
(*     during the call, in order.                                          *)
(*   - The model and the loss class are collaborators given at             *)
(*     construction.  An estimate is a tensor in a range of its own per    *)
(*     model, and a loss records who computed it and from which            *)
(*     arguments, so that a change of argument, of argument order or of    *)
(*     collaborator is visible.                                            *)
(*   - Tensors holding validation losses are integers; the mean of a       *)
(*     stacked tensor is the exact rational sum/N in lowest terms.         *)
(***************************************************************************)
EXTENDS Integers, Sequences, FiniteSets, TLC

VARIABLES model, optimizer, loss_class, train_loader, val_loader, scheduler,
          config, ctor, op, arg, out

fields == <<model, optimizer, loss_class, train_loader, val_loader,
            scheduler, config>>
vars == <<model, optimizer, loss_class, train_loader, val_loader, scheduler,
          config, ctor, op, arg, out>>

\* ---------------------------------------------------------------- bounds
MaxBatchLen == 4
MaxOutputs == 3
MaxLoss == 2

\* ----------------------------------------------------------- value sets
None == "None"
Tensors == {0, 1}
LossVals == 0 .. MaxLoss
EmptyDict == [k \in {} |-> None]
Infos == {EmptyDict, [id |-> "3"]}
Models == {"net_a", "net_b", "net_raising"}
Optimizers == {"adam"}
LossClasses == {"pit_loss", "loss_raising"}
TrainLoaders == {"train_set"}
ValLoaders == {None, "val_set"}
Schedulers == {None, "plateau"}
Configs == {None, "conf_a", "conf_b"}
CheckpointKeys == {"epoch", "state_dict", "training_config"}
CheckpointVals == {"conf_a", "old"}

\* ------------------------------------------------------------- outcomes
Return(v, c) == [status |-> "return", value |-> v, calls |-> c]
Raise(e, c) == [status |-> "raise", error |-> e, calls |-> c]
NotCalled == [status |-> "idle", calls |-> <<>>]

\* --------------------------------------------------- str.format of an int
DigitChars == <<"0", "1", "2", "3", "4", "5", "6", "7", "8", "9">>

RECURSIVE IntToStr(_)
IntToStr(n) ==
    IF n < 10 THEN <<DigitChars[n + 1]>>
    ELSE IntToStr(n \div 10) \o <<DigitChars[(n % 10) + 1]>>

ValueError(n) ==
    [type |-> "ValueError",
     msg |-> <<"Expected DataLoader output to have 2 or 3 elements. Received ">>
             \o IntToStr(n) \o <<" elements">>]

\* ---------------------------------------------------------- collaborators
CollaboratorError(who) == [type |-> "RuntimeError", msg |-> <<who>>]

\* The estimate of a model: the two models have disjoint ranges, themselves
\* disjoint from the tensors of a batch.
ModelValue(m, inputs) == IF m = "net_a" THEN inputs + 10 ELSE inputs + 20

ModelCall(m, fn, inputs) ==
    LET call == [fn |-> fn, by |-> m, inputs |-> inputs]
    IN  IF m = "net_raising"
        THEN Raise(CollaboratorError(m), <<call>>)
        ELSE Return(ModelValue(m, inputs), <<call>>)

LossCompute(l, targets, est_targets, infos) ==
    LET call == [fn |-> "compute", by |-> l, targets |-> targets,
                 est_targets |-> est_targets, infos |-> infos]
    IN  IF l = "loss_raising"
        THEN Raise(CollaboratorError(l), <<call>>)
        ELSE Return([by |-> l, targets |-> targets,
                     est_targets |-> est_targets, infos |-> infos], <<call>>)

\* ------------------------------------------------------------ System.forward
forward(inputs) == ModelCall(model, "model.forward", inputs)

\* -------------------------------------------------------- System.unpack_data
\* Variant: the second test reads len(data) >= 3, so a longer batch is cut.
unpack_data_truncating(data) ==
    IF Len(data) = 2
    THEN Return(<<data[1], data[2], EmptyDict>>, <<>>)
    ELSE IF Len(data) >= 3
         THEN Return(<<data[1], data[2], data[3]>>, <<>>)
         ELSE Raise(ValueError(Len(data)), <<>>)

\* Variant: the two first elements are unpacked in the other order.
unpack_data_swapped(data) ==
    IF Len(data) = 2
    THEN Return(<<data[2], data[1], EmptyDict>>, <<>>)
    ELSE IF Len(data) = 3
         THEN Return(<<data[2], data[1], data[3]>>, <<>>)
         ELSE Raise(ValueError(Len(data)), <<>>)

unpack_data(data) ==
    IF Len(data) = 2
    THEN Return(<<data[1], data[2], EmptyDict>>, <<>>)
    ELSE IF Len(data) = 3
         THEN Return(<<data[1], data[2], data[3]>>, <<>>)
         ELSE Raise(ValueError(Len(data)), <<>>)

\* -------------------------------------------------------- System.common_step
\* Variant: compute receives the estimates first and the targets second.
common_step_swapped(batch, batch_nb) ==
    LET u == unpack_data(batch)
    IN  IF u.status = "raise" THEN u
        ELSE LET inputs == u.value[1]
                 targets == u.value[2]
                 infos == u.value[3]
                 m == ModelCall(model, "model", inputs)
             IN  IF m.status = "raise"
                 THEN Raise(m.error, u.calls \o m.calls)
                 ELSE LET l == LossCompute(loss_class, m.value, targets, infos)
                      IN  IF l.status = "raise"
                          THEN Raise(l.error, u.calls \o m.calls \o l.calls)
                          ELSE Return(l.value, u.calls \o m.calls \o l.calls)

\* Variant: the model is applied before the batch is unpacked, and the
\* unpacking error is re-raised as a RuntimeError.
common_step_translating(batch, batch_nb) ==
    LET u == unpack_data(batch)
    IN  IF u.status = "raise"
        THEN Raise([type |-> "RuntimeError", msg |-> u.error.msg],
                   <<[fn |-> "model", by |-> model, inputs |-> batch]>>)
        ELSE LET inputs == u.value[1]
                 targets == u.value[2]
                 infos == u.value[3]
                 m == ModelCall(model, "model", inputs)
             IN  IF m.status = "raise"
                 THEN Raise(m.error, u.calls \o m.calls)
                 ELSE LET l == LossCompute(loss_class, targets, m.value, infos)
                      IN  IF l.status = "raise"
                          THEN Raise(l.error, u.calls \o m.calls \o l.calls)
                          ELSE Return(l.value, u.calls \o m.calls \o l.calls)

common_step(batch, batch_nb) ==
    LET u == unpack_data(batch)
    IN  IF u.status = "raise" THEN u
        ELSE LET inputs == u.value[1]
                 targets == u.value[2]
                 infos == u.value[3]
                 m == ModelCall(model, "model", inputs)
             IN  IF m.status = "raise"
                 THEN Raise(m.error, u.calls \o m.calls)
                 ELSE LET l == LossCompute(loss_class, targets, m.value, infos)
                      IN  IF l.status = "raise"
                          THEN Raise(l.error, u.calls \o m.calls \o l.calls)
                          ELSE Return(l.value, u.calls \o m.calls \o l.calls)

\* ------------------------------------------------------ System.training_step
\* Variant: the log mapping is keyed 'loss' instead of 'train_loss'.
training_step_wrong_key(batch, batch_nb) ==
    LET c == common_step(batch, batch_nb)
    IN  IF c.status = "raise" THEN c
        ELSE LET loss == c.value
                 tensorboard_logs == [loss |-> loss]
             IN  Return([loss |-> loss, log |-> tensorboard_logs], c.calls)

training_step(batch, batch_nb) ==
    LET c == common_step(batch, batch_nb)
    IN  IF c.status = "raise" THEN c
        ELSE LET loss == c.value
                 tensorboard_logs == [train_loss |-> loss]
             IN  Return([loss |-> loss, log |-> tensorboard_logs], c.calls)

\* ---------------------------------------------------- System.validation_step
validation_step(batch, batch_nb) ==
    LET c == common_step(batch, batch_nb)
    IN  IF c.status = "raise" THEN c
        ELSE Return([val_loss |-> c.value], c.calls)

\* ----------------------------------------------------- System.validation_end
RECURSIVE GCD(_, _)
GCD(a, b) == IF b = 0 THEN a ELSE GCD(b, a % b)

RECURSIVE SumTensor(_)
SumTensor(t) == IF t = <<>> THEN 0 ELSE t[1] + SumTensor(Tail(t))

\* Variant: stacking an empty list gives an empty tensor.
torch_stack_lenient(tensors) == Return(tensors, <<>>)

torch_stack(tensors) ==
    IF Len(tensors) = 0
    THEN Raise([type |-> "RuntimeError",
                msg |-> <<"stack expects a non-empty TensorList">>], <<>>)
    ELSE Return(tensors, <<>>)

NaN == [num |-> 0, den |-> 0]

torch_mean(t) ==
    LET s == SumTensor(t)
        n == Len(t)
        g == GCD(s, n)
    IN  IF n = 0 THEN NaN ELSE [num |-> s \div g, den |-> n \div g]

\* Variant: the losses are summed, not averaged.
validation_end_sum(outputs) ==
    LET stacked == torch_stack([i \in 1 .. Len(outputs) |-> outputs[i].val_loss])
    IN  IF stacked.status = "raise" THEN stacked
        ELSE LET avg_loss == [num |-> SumTensor(stacked.value), den |-> 1]
                 tensorboard_logs == [val_loss |-> avg_loss]
             IN  Return([val_loss |-> avg_loss, log |-> tensorboard_logs,
                         progress_bar |-> tensorboard_logs], <<>>)

validation_end(outputs) ==
    LET stacked == torch_stack([i \in 1 .. Len(outputs) |-> outputs[i].val_loss])
    IN  IF stacked.status = "raise" THEN stacked
        ELSE LET avg_loss == torch_mean(stacked.value)
                 tensorboard_logs == [val_loss |-> avg_loss]
             IN  Return([val_loss |-> avg_loss, log |-> tensorboard_logs,
                         progress_bar |-> tensorboard_logs], <<>>)

\* ------------------------------------------------ System.configure_optimizers
Pair(a, b) == [type |-> "tuple", items |-> <<a, b>>]
Single(a) == [type |-> "object", ref |-> a]

\* Variant: the scheduler comes first in the pair.
configure_optimizers_reversed ==
    IF scheduler # None
    THEN Return(Pair(scheduler, optimizer), <<>>)
    ELSE Return(Single(optimizer), <<>>)

configure_optimizers ==
    IF scheduler # None
    THEN Return(Pair(optimizer, scheduler), <<>>)
    ELSE Return(Single(optimizer), <<>>)

\* ------------------------------------------------------------- dataloaders
train_dataloader == Return(train_loader, <<>>)
val_dataloader == Return(val_loader, <<>>)
tng_dataloader == Return(None, <<>>)

\* -------------------------------------------------- System.on_save_checkpoint
DictSet(d, k, v) == [x \in (DOMAIN d) \cup {k} |-> IF x = k THEN v ELSE d[x]]

\* Variant: the config is stored under the key 'config'.
on_save_checkpoint_wrong_key(checkpoint) ==
    Return(DictSet(checkpoint, "config", config), <<>>)

on_save_checkpoint(checkpoint) ==
    Return(DictSet(checkpoint, "training_config", config), <<>>)

\* -------------------------------------------------------------------- hooks
on_batch_start(batch) == Return(None, <<>>)
on_batch_end == Return(None, <<>>)
on_epoch_start == Return(None, <<>>)
on_epoch_end == Return(None, <<>>)

\* ------------------------------------------------------------ inputs
\* Batches of every length up to MaxBatchLen: tensors in the two first places,
\* a mapping in the third, and the tensor 0 in the places after it.
Batches ==
    UNION {{[i \in 1 .. n |-> IF i = 3 THEN inf
                              ELSE IF i \in DOMAIN f THEN f[i] ELSE 0] :
                f \in [1 .. (IF n < 2 THEN n ELSE 2) -> Tensors], inf \in Infos} :
           n \in 0 .. MaxBatchLen}
BatchNbs == {0, 1}
Outputs ==
    UNION {[1 .. n -> [val_loss : LossVals]] : n \in 0 .. MaxOutputs}
Checkpoints ==
    UNION {[K -> CheckpointVals] : K \in SUBSET CheckpointKeys}

\* ------------------------------------------------------------ System.__init__
Init ==
    /\ ctor \in [model : Models, optimizer : Optimizers,
                 loss_class : LossClasses, train_loader : TrainLoaders,
                 val_loader : ValLoaders, scheduler : Schedulers,
                 config : Configs]
    /\ model = ctor.model
    /\ optimizer = ctor.optimizer
    /\ loss_class = ctor.loss_class
    /\ train_loader = ctor.train_loader
    /\ val_loader = ctor.val_loader
    /\ scheduler = ctor.scheduler
    /\ config = ctor.config
    /\ op = "__init__"
    /\ arg = ctor
    /\ out = NotCalled

\* ------------------------------------------------------------ the callbacks
Called(name, a, o) ==
    /\ op' = name
    /\ arg' = a
    /\ out' = o
    /\ UNCHANGED <<fields, ctor>>

Forward ==
    \E x \in Tensors : Called("forward", [inputs |-> x], forward(x))

UnpackData ==
    \E data \in Batches : Called("unpack_data", [data |-> data], unpack_data(data))

CommonStep ==
    \E batch \in Batches, batch_nb \in BatchNbs :
        Called("common_step", [batch |-> batch, batch_nb |-> batch_nb],
               common_step(batch, batch_nb))

TrainingStep ==
    \E batch \in Batches, batch_nb \in BatchNbs :
        Called("training_step", [batch |-> batch, batch_nb |-> batch_nb],
               training_step(batch, batch_nb))

ValidationStep ==
    \E batch \in Batches, batch_nb \in BatchNbs :
        Called("validation_step", [batch |-> batch, batch_nb |-> batch_nb],
               validation_step(batch, batch_nb))

ValidationEnd ==
    \E outputs \in Outputs :
        Called("validation_end", [outputs |-> outputs], validation_end(outputs))

ConfigureOptimizers ==
    Called("configure_optimizers", EmptyDict, configure_optimizers)

TrainDataloader == Called("train_dataloader", EmptyDict, train_dataloader)

ValDataloader == Called("val_dataloader", EmptyDict, val_dataloader)

TngDataloader == Called("tng_dataloader", EmptyDict, tng_dataloader)

\* Variant: the assignment is reversed, self.config is read from the checkpoint.
OnSaveCheckpointReversed ==
    \E checkpoint \in Checkpoints :
        /\ op' = "on_save_checkpoint"
        /\ arg' = [checkpoint |-> checkpoint]
        /\ out' = Return(checkpoint, <<>>)
        /\ config' = IF "training_config" \in DOMAIN checkpoint
                     THEN checkpoint["training_config"] ELSE None
        /\ UNCHANGED <<model, optimizer, loss_class, train_loader, val_loader,
                       scheduler, ctor>>

OnSaveCheckpoint ==
    \E checkpoint \in Checkpoints :
        Called("on_save_checkpoint", [checkpoint |-> checkpoint],
               on_save_checkpoint(checkpoint))

OnBatchStart ==
    \E batch \in Batches :
        Called("on_batch_start", [batch |-> batch], on_batch_start(batch))

OnBatchEnd == Called("on_batch_end", EmptyDict, on_batch_end)

OnEpochStart == Called("on_epoch_start", EmptyDict, on_epoch_start)

OnEpochEnd == Called("on_epoch_end", EmptyDict, on_epoch_end)

Next ==
    \/ Forward
    \/ UnpackData
    \/ CommonStep
    \/ TrainingStep
    \/ ValidationStep
    \/ ValidationEnd
    \/ ConfigureOptimizers
    \/ TrainDataloader
    \/ ValDataloader
    \/ TngDataloader
    \/ OnSaveCheckpoint
    \/ OnBatchStart
    \/ OnBatchEnd
    \/ OnEpochStart
    \/ OnEpochEnd

Spec == Init /\ [][Next]_vars

\* ================================================================ properties
WellFormed(batch) == Len(batch) \in {2, 3}
StepOps == {"common_step", "training_step", "validation_step"}
CollaboratorsReturn == model # "net_raising" /\ loss_class # "loss_raising"

DigitValue(c) == CHOOSE d \in 0 .. 9 : DigitChars[d + 1] = c

RECURSIVE StrToInt(_)
StrToInt(str) ==
    IF Len(str) = 0 THEN 0
    ELSE 10 * StrToInt(SubSeq(str, 1, Len(str) - 1)) + DigitValue(str[Len(str)])

\* The number between 'Received ' and ' elements' in the error message.
ReportedLength(msg) == StrToInt(SubSeq(msg, 2, Len(msg) - 1))

\* C1: unpack_data of a batch whose length is neither 2 nor 3 returns no
\* value: it raises ValueError, and the length in the message is the length
\* of the batch.
C1_MalformedBatchRaises ==
    (op = "unpack_data" /\ ~WellFormed(arg.data)) =>
        /\ out.status = "raise"
        /\ "value" \notin DOMAIN out
        /\ out.error.type = "ValueError"
        /\ ReportedLength(out.error.msg) = Len(arg.data)

C1_Witness ==
    /\ op = "unpack_data"
    /\ Len(arg.data) = 4
    /\ out.status = "raise"
    /\ ReportedLength(out.error.msg) = 4

\* C2: unpack_data of a batch of length 2 or 3 returns three elements, the
\* elements of the batch first and in the order of the batch; for a batch of
\* length 2 the third is the empty mapping.
C2_UnpackKeepsOrder ==
    (op = "unpack_data" /\ WellFormed(arg.data)) =>
        /\ out.status = "return"
        /\ Len(out.value) = 3
        /\ SubSeq(out.value, 1, Len(arg.data)) = arg.data
        /\ Len(arg.data) = 2 => out.value[3] = EmptyDict

C2_Witness ==
    /\ op = "unpack_data"
    /\ Len(arg.data) = 3
    /\ arg.data[1] # arg.data[2]
    /\ arg.data[3] # EmptyDict
    /\ out.status = "return"
    /\ out.value[3] = arg.data[3]

\* C3: common_step of a well-formed batch returns
\* loss_class.compute(targets, model(inputs), infos) for the unpacked batch:
\* one call of the model on the inputs, then one call of compute with the
\* targets first and the estimates second; the batch number plays no part.
C3_CommonStepIsLossOfModel ==
    (op = "common_step" /\ WellFormed(arg.batch) /\ CollaboratorsReturn) =>
        LET u == unpack_data(arg.batch).value
            est == ModelCall(model, "model", u[1]).value
        IN  /\ out.status = "return"
            /\ out.value = LossCompute(loss_class, u[2], est, u[3]).value
            /\ Len(out.calls) = 2
            /\ out.calls[1].fn = "model"
            /\ out.calls[1].by = model
            /\ out.calls[1].inputs = u[1]
            /\ out.calls[2].fn = "compute"
            /\ out.calls[2].by = loss_class
            /\ out.calls[2].targets = u[2]
            /\ out.calls[2].est_targets = est
            /\ out.calls[2].infos = u[3]
            /\ \A i \in BatchNbs : common_step(arg.batch, i) = out

C3_Witness ==
    /\ op = "common_step"
    /\ Len(arg.batch) = 3
    /\ arg.batch[3] # EmptyDict
    /\ CollaboratorsReturn
    /\ out.status = "return"
    /\ out.value.targets = arg.batch[2]
    /\ out.value.est_targets = ModelValue(model, arg.batch[1])

\* C4: with L the loss common_step returns for a well-formed batch,
\* training_step returns {'loss': L, 'log': {'train_loss': L}} and
\* validation_step returns {'val_loss': L}, with no other key.
C4_StepResults ==
    (op \in {"training_step", "validation_step"} /\ WellFormed(arg.batch)) =>
        LET c == common_step(arg.batch, arg.batch_nb)
        IN  c.status = "return" =>
                /\ out.status = "return"
                /\ op = "training_step" =>
                       /\ DOMAIN out.value = {"loss", "log"}
                       /\ out.value.loss = c.value
                       /\ DOMAIN out.value.log = {"train_loss"}
                       /\ out.value.log.train_loss = c.value
                /\ op = "validation_step" =>
                       /\ DOMAIN out.value = {"val_loss"}
                       /\ out.value.val_loss = c.value

C4_Witness ==
    /\ op = "training_step"
    /\ WellFormed(arg.batch)
    /\ out.status = "return"
    /\ out.value.log.train_loss = out.value.loss

\* The sum of the losses, taken value by value and so without any order.
RECURSIVE WeightedCount(_, _)
WeightedCount(vals, outputs) ==
    IF vals = {} THEN 0
    ELSE LET v == CHOOSE x \in vals : TRUE
         IN  v * Cardinality({i \in 1 .. Len(outputs) : outputs[i].val_loss = v})
             + WeightedCount(vals \ {v}, outputs)

IsQuotient(r, s, n) == r.den > 0 /\ r.num * n = s * r.den

C6_ConfigureOptimizers ==
    op = "configure_optimizers" =>
        /\ out.status = "return"
        /\ (out.value.type = "tuple") <=> (ctor.scheduler # None)
        /\ out.value.type = "tuple" =>
               out.value.items = <<ctor.optimizer, ctor.scheduler>>
        /\ out.value.type # "tuple" => out.value = Single(ctor.optimizer)

C6_Witness ==
    /\ op = "configure_optimizers"
    /\ ctor.scheduler # None
    /\ out.value.type = "tuple"

\* C7 as stated: on_save_checkpoint returns the checkpoint with
\* 'training_config' holding the config given at construction, and every
\* field the checkpoint already held is unchanged.
C7_AllFieldsKept ==
    op = "on_save_checkpoint" =>
        /\ out.status = "return"
        /\ out.value["training_config"] = ctor.config
        /\ \A k \in DOMAIN arg.checkpoint : out.value[k] = arg.checkpoint[k]

\* C7 amended: on_save_checkpoint returns the checkpoint with
\* 'training_config' holding the config given at construction (None when
\* none was given); every other field the checkpoint already held is
\* unchanged and no other field is added.  A 'training_config' field the
\* checkpoint already held is overwritten.
C7_OtherFieldsKept ==
    op = "on_save_checkpoint" =>
        /\ out.status = "return"
        /\ DOMAIN out.value = DOMAIN arg.checkpoint \cup {"training_config"}
        /\ out.value["training_config"] = ctor.config
        /\ \A k \in DOMAIN arg.checkpoint \ {"training_config"} :
               out.value[k] = arg.checkpoint[k]

C7_Witness ==
    /\ op = "on_save_checkpoint"
    /\ "training_config" \in DOMAIN arg.checkpoint
    /\ "epoch" \in DOMAIN arg.checkpoint
    /\ arg.checkpoint["training_config"] # ctor.config
    /\ out.value["training_config"] = ctor.config

\* C8: validation_end of an empty sequence of results raises and returns no
\* structure.
C8_EmptyOutputsRaise ==
    (op = "validation_end" /\ Len(arg.outputs) = 0) =>
        /\ out.status = "raise"
        /\ "value" \notin DOMAIN out

C8_Witness ==
    /\ op = "validation_end"
    /\ Len(arg.outputs) = 0
    /\ out.status = "raise"
    /\ out.error.type = "RuntimeError"

\* C9: after any callback, returning or raising, the seven fields are the
\* references given at construction; the only collaborator calls of a step
\* are the model and compute, never an optimizer or scheduler step.
C9_FieldsAreConstructionArgs ==
    /\ model = ctor.model
    /\ optimizer = ctor.optimizer
    /\ loss_class = ctor.loss_class
    /\ train_loader = ctor.train_loader
    /\ val_loader = ctor.val_loader
    /\ scheduler = ctor.scheduler
    /\ config = ctor.config
    /\ \A i \in 1 .. Len(out.calls) :
           /\ out.calls[i].fn \in {"model", "model.forward", "compute"}
           /\ out.calls[i].by \in {ctor.model, ctor.loss_class}

C9_Witness ==
    /\ op = "on_save_checkpoint"
    /\ "training_config" \in DOMAIN arg.checkpoint
    /\ arg.checkpoint["training_config"] # ctor.config
    /\ config = ctor.config

\* C10: a step called with a batch whose length is neither 2 nor 3 raises the
\* error of unpack_data, unmodified, returns nothing, and calls neither the
\* model nor compute.
C10_MalformedBatchInStep ==
    (op \in StepOps /\ ~WellFormed(arg.batch)) =>
        /\ out.status = "raise"
        /\ "value" \notin DOMAIN out
        /\ out.error = unpack_data(arg.batch).error
        /\ out.error.type = "ValueError"
        /\ out.calls = <<>>

C10_Witness ==
    /\ op = "validation_step"
    /\ Len(arg.batch) = 1
    /\ out.status = "raise"
    /\ out.calls = <<>>

====
